---- MODULE Spec2Model ----
(***************************************************************************)
(* Model of src/config.py, the configuration module of the UX AI audit     *)
(* system: module-level load (directories, settings, logging, reference    *)
(* data), validate_config() and the __main__ block.                        *)
(*                                                                         *)
(* A Python str is a sequence of tokens.  Numeric inputs are spelled one   *)
(* character per token, so that int() is modelled by a real parser; other  *)
(* texts (model names, message fragments) are kept as whole tokens.        *)
(***************************************************************************)
EXTENDS Integers, Sequences, FiniteSets, TLC

VARIABLES
    environ,             \* os.environ as the module read it: name -> str, set names only
    name,                \* __name__ of the module in this process
    fs,                  \* paths existing under ROOT_DIR
    pc,                  \* position of the process in the module
    settings,            \* module globals of lines 32-60 defined so far: name -> value
    root,                \* logging's root logger: handlers and level
    openFiles,           \* files held open by this process
    NIELSEN_HEURISTICS,  \* module global, lines 73-84 (empty until defined)
    PERSONAS,            \* module global, lines 87-172 (empty until defined)
    SENTIMENT_LABELS,    \* module global, lines 175-179 (empty until defined)
    calls,               \* validate_config() calls made by importers so far
    trace,               \* what the process did that is visible outside, in order
    exc,                 \* exception propagating out of the last operation
    exit_code            \* exit status of the process, Running while it runs

vars == <<environ, name, fs, pc, settings, root, openFiles, NIELSEN_HEURISTICS,
          PERSONAS, SENTIMENT_LABELS, calls, trace, exc, exit_code>>

(***************************************************************************)
(* Bounds of the model.                                                    *)
(***************************************************************************)
\* How many of the non-credential variables the environment sets at once.
MaxOverrides == 1
\* How many times importers call validate_config() in one process.
MaxCalls == 2

(***************************************************************************)
(* Python values: None, str and int, in one record shape.                  *)
(***************************************************************************)
PyNone == [t |-> "NoneType", i |-> 0, s |-> <<>>]
PyStr(s) == [t |-> "str", i |-> 0, s |-> s]
PyInt(i) == [t |-> "int", i |-> i, s |-> <<>>]

\* Python truthiness, as used by `if not X` / `if X`.
Truthy(v) ==
    CASE v.t = "NoneType" -> FALSE
      [] v.t = "str" -> Len(v.s) > 0
      [] v.t = "int" -> v.i # 0

Range(f) == {f[x] : x \in DOMAIN f}

EmptyMap == [x \in {} |-> PyNone]

(***************************************************************************)
(* int(str): optional surrounding whitespace, optional sign, decimal       *)
(* digits with single underscores allowed between digits.                  *)
(***************************************************************************)
Digits == {"0", "1", "2", "3", "4", "5", "6", "7", "8", "9"}

DigitVal(c) ==
    CASE c = "0" -> 0 [] c = "1" -> 1 [] c = "2" -> 2 [] c = "3" -> 3
      [] c = "4" -> 4 [] c = "5" -> 5 [] c = "6" -> 6 [] c = "7" -> 7
      [] c = "8" -> 8 [] c = "9" -> 9

RECURSIVE LStrip(_)
LStrip(s) == IF s # <<>> /\ Head(s) = " " THEN LStrip(Tail(s)) ELSE s

RECURSIVE RStrip(_)
RStrip(s) ==
    IF s # <<>> /\ s[Len(s)] = " " THEN RStrip(SubSeq(s, 1, Len(s) - 1)) ELSE s

Strip(s) == RStrip(LStrip(s))

\* The digit string after the sign: non-empty, digits and underscores only,
\* every underscore between two digits.
WellFormedDigits(d) ==
    /\ d # <<>>
    /\ \A k \in 1..Len(d) :
         \/ d[k] \in Digits
         \/ /\ d[k] = "_"
            /\ k > 1 /\ k < Len(d)
            /\ d[k - 1] \in Digits /\ d[k + 1] \in Digits

RECURSIVE DigitsValue(_, _)
DigitsValue(d, acc) ==
    IF d = <<>> THEN acc
    ELSE IF Head(d) = "_" THEN DigitsValue(Tail(d), acc)
    ELSE DigitsValue(Tail(d), 10 * acc + DigitVal(Head(d)))

\* int(s) for a str s: [ok |-> TRUE, i |-> value] or [ok |-> FALSE] (ValueError).
ParseInt(s) ==
    LET b == Strip(s)
        signed == b # <<>> /\ Head(b) \in {"+", "-"}
        d == IF signed THEN Tail(b) ELSE b
    IN  IF WellFormedDigits(d)
        THEN [ok |-> TRUE,
              i |-> IF signed /\ Head(b) = "-" THEN 0 - DigitsValue(d, 0)
                    ELSE DigitsValue(d, 0)]
        ELSE [ok |-> FALSE, i |-> 0]

(***************************************************************************)
(* The environment (line 10, then os.getenv at lines 32-59).               *)
(***************************************************************************)
Credentials == {"OPENAI_API_KEY", "GEMINI_API_KEY", "DEEPSEEK_API_KEY"}

NumericSettings ==
    {"MAX_STEPS", "SCREENSHOT_TIMEOUT", "DEFAULT_VIEWPORT_WIDTH",
     "DEFAULT_VIEWPORT_HEIGHT", "GRID_SIZE", "NAVIGATION_TIMEOUT", "PAGE_LOAD_WAIT"}

TextSettings ==
    {"OPENAI_MODEL", "GEMINI_MODEL", "DEEPSEEK_MODEL", "DEEPSEEK_BASE_URL",
     "GRID_COLOR", "LOG_LEVEL"}

\* The module globals of lines 32-59, in the order the module assigns them.
SettingOrder ==
    <<"OPENAI_API_KEY", "OPENAI_MODEL", "GEMINI_API_KEY", "GEMINI_MODEL",
      "DEEPSEEK_API_KEY", "DEEPSEEK_MODEL", "DEEPSEEK_BASE_URL",
      "MAX_STEPS", "SCREENSHOT_TIMEOUT", "DEFAULT_VIEWPORT_WIDTH",
      "DEFAULT_VIEWPORT_HEIGHT", "GRID_SIZE", "GRID_COLOR",
      "NAVIGATION_TIMEOUT", "PAGE_LOAD_WAIT", "LOG_LEVEL">>

SettingNames == Range(SettingOrder)

\* The second argument of each os.getenv call (None when there is none).
GetenvDefault(n) ==
    CASE n \in Credentials -> PyNone
      [] n = "OPENAI_MODEL" -> PyStr(<<"gpt-5-mini">>)
      [] n = "GEMINI_MODEL" -> PyStr(<<"gemini-1.5-pro">>)
      [] n = "DEEPSEEK_MODEL" -> PyStr(<<"deepseek-chat">>)
      [] n = "DEEPSEEK_BASE_URL" -> PyStr(<<"https://api.deepseek.com">>)
      [] n = "MAX_STEPS" -> PyStr(<<"1", "5">>)
      [] n = "SCREENSHOT_TIMEOUT" -> PyStr(<<"3", "0", "0", "0", "0">>)
      [] n = "DEFAULT_VIEWPORT_WIDTH" -> PyStr(<<"1", "9", "2", "0">>)
      [] n = "DEFAULT_VIEWPORT_HEIGHT" -> PyStr(<<"1", "0", "8", "0">>)
      [] n = "GRID_SIZE" -> PyStr(<<"1", "0", "0">>)
      [] n = "GRID_COLOR" -> PyStr(<<"rgba(255,0,0,0.3)">>)
      [] n = "NAVIGATION_TIMEOUT" -> PyStr(<<"3", "0", "0", "0", "0">>)
      [] n = "PAGE_LOAD_WAIT" -> PyStr(<<"2", "0", "0", "0">>)
      [] n = "LOG_LEVEL" -> PyStr(<<"INFO">>)

\* os.getenv(n, default) against the environment e.
Getenv(e, n) == IF n \in DOMAIN e THEN PyStr(e[n]) ELSE GetenvDefault(n)

\* Values the environment may give a variable.
CredentialInputs == {<<>>, <<"sk-test">>}

NumericInputs ==
    {<<"4", "2">>, <<" ", "7", " ">>, <<"-", "3">>, <<"a", "b", "c">>, <<>>}

LogLevelInputs == {<<"DEBUG">>, <<"verbose">>, <<"debug">>}

TextInputs == {<<"custom">>, <<>>}

InputsOf(n) ==
    CASE n \in Credentials -> CredentialInputs
      [] n \in NumericSettings -> NumericInputs
      [] n = "LOG_LEVEL" -> LogLevelInputs
      [] OTHER -> TextInputs

\* Every way of giving each variable of the set N one of its inputs.
RECURSIVE Assignments(_)
Assignments(N) ==
    IF N = {} THEN {EmptyMap}
    ELSE LET n == CHOOSE x \in N : TRUE
         IN  {a @@ (n :> v) : a \in Assignments(N \ {n}), v \in InputsOf(n)}

\* What the environment says about the three credentials: any combination.
CredentialEnvironments == UNION {Assignments(C) : C \in SUBSET Credentials}

\* What it says about the other variables: at most MaxOverrides of them set.
OverrideEnvironments ==
    UNION {Assignments(O) :
             O \in {N \in SUBSET (NumericSettings \cup TextSettings) :
                        Cardinality(N) <= MaxOverrides}}

(***************************************************************************)
(* Exceptions.                                                             *)
(***************************************************************************)
NoExc == [type |-> "None", msg |-> <<>>]
Raise(type, msg) == [type |-> type, msg |-> msg]

(***************************************************************************)
(* Settings resolution (lines 32-59).                                      *)
(***************************************************************************)
\* A variant of ResolveSetting that forgets int(): the text itself is bound.
ResolveSettingNoCoercion(e, n) == [val |-> Getenv(e, n), err |-> NoExc]

\* A variant of ResolveSetting that falls back to the default when int() fails.
ResolveSettingLenient(e, n) ==
    LET raw == Getenv(e, n)
    IN  IF n \in NumericSettings
        THEN LET r == ParseInt(raw.s)
             IN  [val |-> IF r.ok THEN PyInt(r.i)
                          ELSE PyInt(ParseInt(GetenvDefault(n).s).i),
                  err |-> NoExc]
        ELSE [val |-> raw, err |-> NoExc]

\* One assignment: the value bound to n, or the ValueError int() raises.
ResolveSetting(e, n) ==
    LET raw == Getenv(e, n)
    IN  IF n \in NumericSettings
        THEN LET r == ParseInt(raw.s)
             IN  IF r.ok THEN [val |-> PyInt(r.i), err |-> NoExc]
                 ELSE [val |-> PyNone,
                       err |-> Raise("ValueError",
                                     <<"invalid literal for int() with base 10: ">> \o raw.s)]
        ELSE [val |-> raw, err |-> NoExc]

\* The assignments from position k on, stopping at the first exception.
RECURSIVE ResolveFrom(_, _, _)
ResolveFrom(e, k, acc) ==
    IF k > Len(SettingOrder) THEN [settings |-> acc, err |-> NoExc]
    ELSE LET r == ResolveSetting(e, SettingOrder[k])
         IN  IF r.err # NoExc THEN [settings |-> acc, err |-> r.err]
             ELSE ResolveFrom(e, k + 1, acc @@ (SettingOrder[k] :> r.val))

(***************************************************************************)
(* The file system under ROOT_DIR (lines 13-22, 60).                       *)
(***************************************************************************)
DATA_DIR == "data"
SCREENSHOTS_DIR == "data/screenshots"
REPORTS_DIR == "data/reports"
LOGS_DIR == "logs"
LOG_FILE == "logs/audit.log"

Directories == {DATA_DIR, SCREENSHOTS_DIR, REPORTS_DIR, LOGS_DIR}

\* ROOT_DIR itself always exists: it holds the directory of the module file.
Parent(p) ==
    CASE p = SCREENSHOTS_DIR -> DATA_DIR
      [] p = REPORTS_DIR -> DATA_DIR
      [] p = LOG_FILE -> LOGS_DIR
      [] OTHER -> "."

Exists(f, p) == p = "." \/ p \in f

\* Path.mkdir(parents, exist_ok) on a tree that holds directories only.
RECURSIVE Mkdir(_, _, _, _)
Mkdir(f, p, parents, exist_ok) ==
    IF Exists(f, p)
    THEN IF exist_ok THEN [fs |-> f, err |-> NoExc]
         ELSE [fs |-> f, err |-> Raise("FileExistsError", <<p>>)]
    ELSE IF Exists(f, Parent(p)) THEN [fs |-> f \cup {p}, err |-> NoExc]
    ELSE IF parents
         THEN LET up == Mkdir(f, Parent(p), TRUE, TRUE)
              IN  [fs |-> up.fs \cup {p}, err |-> NoExc]
         ELSE [fs |-> f, err |-> Raise("FileNotFoundError", <<p>>)]

\* A variant of MakeDir without exist_ok.
MakeDirNoExistOk(f, p) == Mkdir(f, p, TRUE, FALSE)

\* The call of lines 20-22: mkdir(parents=True, exist_ok=True).
MakeDir(f, p) == Mkdir(f, p, TRUE, TRUE)

\* Lines 20-22 in order, stopping at the first exception.
RECURSIVE MakeDirs(_, _)
MakeDirs(f, ps) ==
    IF ps = <<>> THEN [fs |-> f, err |-> NoExc]
    ELSE LET r == MakeDir(f, Head(ps))
         IN  IF r.err # NoExc THEN r ELSE MakeDirs(r.fs, Tail(ps))

\* A directory tree: every directory present has its parent present.
TreeClosed(f) == \A p \in f : Exists(f, Parent(p))

(***************************************************************************)
(* Logging (lines 59-70).                                                  *)
(***************************************************************************)
\* getattr(logging, level_name, logging.INFO): the numeric level constants of
\* the logging module, another attribute of the module (a function or a
\* class), or the default logging.INFO when there is no such attribute.
LoggingAttr(v) ==
    CASE v.s \in {<<"CRITICAL">>, <<"FATAL">>} -> [int |-> TRUE, level |-> 50]
      [] v.s = <<"ERROR">> -> [int |-> TRUE, level |-> 40]
      [] v.s \in {<<"WARNING">>, <<"WARN">>} -> [int |-> TRUE, level |-> 30]
      [] v.s = <<"INFO">> -> [int |-> TRUE, level |-> 20]
      [] v.s = <<"DEBUG">> -> [int |-> TRUE, level |-> 10]
      [] v.s = <<"NOTSET">> -> [int |-> TRUE, level |-> 0]
      [] v.s \in {<<"debug">>, <<"info">>, <<"warning">>, <<"error">>,
                  <<"critical">>, <<"Logger">>, <<"Handler">>}
            -> [int |-> FALSE, level |-> 0]
      [] OTHER -> [int |-> TRUE, level |-> 20]

\* The root logger of a fresh process: no handlers, level WARNING.
FreshRoot == [handlers |-> {}, level |-> 30]

\* Lines 62-69: the FileHandler opens LOG_FILE for appending, then
\* basicConfig installs the handlers on a root logger that has none and sets
\* the level, which must be an int (or a level name).
BasicConfig(f, r, s) ==
    IF ~Exists(f, LOGS_DIR)
    THEN [fs |-> f, root |-> r, open |-> {},
          err |-> Raise("FileNotFoundError", <<LOG_FILE>>)]
    ELSE LET lv == LoggingAttr(s["LOG_LEVEL"])
             hs == IF r.handlers = {} THEN {"FileHandler", "StreamHandler"}
                   ELSE r.handlers
         IN  IF lv.int
             THEN [fs |-> f \cup {LOG_FILE}, open |-> {LOG_FILE},
                   root |-> [handlers |-> hs, level |-> lv.level], err |-> NoExc]
             ELSE [fs |-> f \cup {LOG_FILE}, open |-> {LOG_FILE},
                   root |-> [handlers |-> hs, level |-> r.level],
                   err |-> Raise("TypeError", <<"Level not an integer or a valid string">>)]

(***************************************************************************)
(* Static reference data (lines 73-179).  Free texts of the persona        *)
(* records are named by their key, not spelled out.                        *)
(***************************************************************************)
NielsenHeuristics ==
    <<"Visibility of system status",
      "Match between system and the real world",
      "User control and freedom",
      "Consistency and standards",
      "Error prevention",
      "Recognition rather than recall",
      "Flexibility and efficiency of use",
      "Aesthetic and minimalist design",
      "Help users recognize, diagnose, and recover from errors",
      "Help and documentation">>

Texts(k, field, n) == [j \in 1..n |-> <<k, field, j>>]

Persona(k, name_en, age, devices) ==
    [name |-> <<k, "name">>, name_en |-> name_en, age |-> age,
     tech_level |-> <<k, "tech_level">>,
     characteristics |-> Texts(k, "characteristics", 4),
     goals |-> Texts(k, "goals", 5),
     pain_points |-> Texts(k, "pain_points", 4),
     devices |-> devices,
     time_pressure |-> <<k, "time_pressure">>,
     system_prompt |-> <<k, "system_prompt">>]

Personas ==
    [k \in {"student", "applicant", "teacher"} |->
        CASE k = "student" -> Persona(k, "Student", 20, <<"mobile", "tablet", "desktop">>)
          [] k = "applicant" -> Persona(k, "Applicant", 17, <<"mobile", "desktop">>)
          [] k = "teacher" -> Persona(k, "Teacher", 45, <<"desktop", "tablet">>)]

SentimentLabels ==
    [k \in {"POSITIVE", "NEUTRAL", "NEGATIVE"} |->
        CASE k = "POSITIVE" -> 1 [] k = "NEUTRAL" -> 0 [] k = "NEGATIVE" -> 0 - 1]

\* Not yet defined globals.
NoList == <<>>
NoDict == [k \in {} |-> 0]

(***************************************************************************)
(* validate_config (lines 182-200).                                        *)
(***************************************************************************)
Event(op, text) == [op |-> op, text |-> text]

\* ', '.join(msgs) for a list of strs.
RECURSIVE Join(_)
Join(msgs) ==
    IF msgs = <<>> THEN <<>>
    ELSE IF Len(msgs) = 1 THEN Head(msgs)
    ELSE Head(msgs) \o <<", ">> \o Join(Tail(msgs))

\* A variant of ValidationErrors that also demands the fallback key.
ValidationErrorsOptionalMandatory(s) ==
    (IF ~Truthy(s["OPENAI_API_KEY"])
     THEN << <<"OPENAI_API_KEY", " is not set (required for primary LLM)">> >>
     ELSE <<>>)
    \o
    (IF ~Truthy(s["GEMINI_API_KEY"])
     THEN << <<"GEMINI_API_KEY", " is not set (optional fallback)">> >>
     ELSE <<>>)

\* Lines 187-188.
ValidationErrors(s) ==
    IF ~Truthy(s["OPENAI_API_KEY"])
    THEN << <<"OPENAI_API_KEY", " is not set (required for primary LLM)">> >>
    ELSE <<>>

\* A variant of ValidationWarnings that checks the fallback key only.
ValidationWarningsGeminiOnly(s) ==
    IF ~Truthy(s["GEMINI_API_KEY"])
    THEN << <<"GEMINI_API_KEY", " is not set (optional fallback)">> >>
    ELSE <<>>

\* Lines 190-194.
ValidationWarnings(s) ==
    (IF ~Truthy(s["GEMINI_API_KEY"])
     THEN << <<"GEMINI_API_KEY", " is not set (optional fallback)">> >>
     ELSE <<>>)
    \o
    (IF ~Truthy(s["DEEPSEEK_API_KEY"])
     THEN << <<"DEEPSEEK_API_KEY", " is not set (optional auxiliary LLM)">> >>
     ELSE <<>>)

\* A variant of ValidateEvents that raises as soon as an error is found,
\* before the warnings are printed.
ValidateEventsFailFast(s) ==
    IF ~Truthy(s["OPENAI_API_KEY"])
    THEN <<Event("raise", <<"Configuration errors: ", "OPENAI_API_KEY",
                           " is not set (required for primary LLM)">>)>>
    ELSE IF ~Truthy(s["GEMINI_API_KEY"]) \/ ~Truthy(s["DEEPSEEK_API_KEY"])
    THEN <<Event("print", <<"Warnings: ">>
                  \o (IF ~Truthy(s["GEMINI_API_KEY"])
                      THEN <<"GEMINI_API_KEY", " is not set (optional fallback)">>
                      ELSE <<>>)
                  \o (IF ~Truthy(s["GEMINI_API_KEY"]) /\ ~Truthy(s["DEEPSEEK_API_KEY"])
                      THEN <<", ">> ELSE <<>>)
                  \o (IF ~Truthy(s["DEEPSEEK_API_KEY"])
                      THEN <<"DEEPSEEK_API_KEY", " is not set (optional auxiliary LLM)">>
                      ELSE <<>>)),
           Event("return", <<>>)>>
    ELSE <<Event("return", <<>>)>>

\* Lines 196-200: what one call does, in order: the print of the warnings,
\* then the raise, or the return of None.
ValidateEvents(s) ==
    LET errors == ValidationErrors(s)
        warnings == ValidationWarnings(s)
    IN  (IF warnings # <<>>
         THEN <<Event("print", <<"Warnings: ">> \o Join(warnings))>>
         ELSE <<>>)
        \o
        (IF errors # <<>>
         THEN <<Event("raise", <<"Configuration errors: ">> \o Join(errors))>>
         ELSE <<Event("return", <<>>)>>)

\* The exception a call ends with, NoExc when it returns.
Outcome(events) ==
    LET last == events[Len(events)]
    IN  IF last.op = "raise" THEN Raise("ValueError", last.text) ELSE NoExc

\* A variant of validate_config that consumes the key it has checked.
validate_config_consuming(g) ==
    [globals |-> [g EXCEPT !.settings = [@ EXCEPT !["OPENAI_API_KEY"] = PyNone]],
     events |-> ValidateEvents(g.settings)]

\* A variant of validate_config that pops the first heuristic.
validate_config_popping(g) ==
    [globals |-> [g EXCEPT !.heuristics = Tail(@)],
     events |-> ValidateEvents(g.settings)]

\* The module globals a call can see.
Globals ==
    [settings |-> settings, heuristics |-> NIELSEN_HEURISTICS,
     personas |-> PERSONAS, labels |-> SENTIMENT_LABELS]

\* One call of validate_config: it reads the credentials, assigns no global,
\* and does what ValidateEvents lists.
validate_config(g) == [globals |-> g, events |-> ValidateEvents(g.settings)]

(***************************************************************************)
(* The process.                                                            *)
(***************************************************************************)
\* A variant of Program that resolves the settings before anything else.
ProgramSettingsFirst == <<"settings", "dirs", "logging", "data">>

\* The steps of module load in source order: lines 20-22, 32-59, 62-70, 73-179.
Program == <<"dirs", "settings", "logging", "data">>

\* Where control goes after a load step that raised nothing.
After(step) ==
    LET k == CHOOSE j \in 1..Len(Program) : Program[j] = step
    IN  IF k < Len(Program) THEN Program[k + 1] ELSE "loaded"

\* A variant of AfterMainValidate that goes on whatever the call raised.
AfterMainValidateAlways(e) == "print"

\* Line 202, then 203-204: where control goes after validate_config() in the
\* __main__ block.
AfterMainValidate(e) == IF e = NoExc THEN "print" ELSE "failed"

\* An uncaught exception ends a script with status 1; to an importer it
\* propagates out of the import statement.
Status(e) ==
    IF name # "__main__" THEN "running"
    ELSE IF e = NoExc THEN "exit 0" ELSE "exit 1"

Init ==
    /\ environ = EmptyMap
    /\ name \in {"__main__", "src.config"}
    /\ fs \in {f \in SUBSET Directories : TreeClosed(f)}
    /\ pc = Program[1]
    /\ settings = EmptyMap
    /\ root = FreshRoot
    /\ openFiles = {}
    /\ NIELSEN_HEURISTICS = NoList
    /\ PERSONAS = NoDict
    /\ SENTIMENT_LABELS = NoDict
    /\ calls = 0
    /\ trace = <<>>
    /\ exc = NoExc
    /\ exit_code = "running"

\* A load step ends: on to the next step, or the exception ends the load.
LoadStep(step, e) ==
    /\ exc' = e
    /\ IF e = NoExc
       THEN /\ pc' = After(step)
            /\ trace' = trace
            /\ exit_code' = exit_code
       ELSE /\ pc' = "failed"
            /\ trace' = Append(trace, Event("raise", e.msg))
            /\ exit_code' = Status(e)

\* Lines 20-22.
CreateDirs ==
    /\ pc = "dirs"
    /\ LET r == MakeDirs(fs, <<SCREENSHOTS_DIR, REPORTS_DIR, LOGS_DIR>>)
       IN  /\ fs' = r.fs
           /\ LoadStep("dirs", r.err)
    /\ UNCHANGED <<environ, name, settings, root, openFiles, NIELSEN_HEURISTICS,
                   PERSONAS, SENTIMENT_LABELS, calls>>

\* Lines 32-59.  The environment, fixed since load_dotenv() of line 10, is
\* read here for the first time.
ResolveSettings ==
    /\ pc = "settings"
    /\ \E c \in CredentialEnvironments, o \in OverrideEnvironments :
         LET e == c @@ o
             r == ResolveFrom(e, 1, EmptyMap)
         IN  /\ environ' = e
             /\ settings' = r.settings
             /\ LoadStep("settings", r.err)
    /\ UNCHANGED <<name, fs, root, openFiles, NIELSEN_HEURISTICS,
                   PERSONAS, SENTIMENT_LABELS, calls>>

\* Lines 62-70.
ConfigureLogging ==
    /\ pc = "logging"
    /\ LET r == BasicConfig(fs, root, settings)
       IN  /\ fs' = r.fs
           /\ root' = r.root
           /\ openFiles' = openFiles \cup r.open
           /\ LoadStep("logging", r.err)
    /\ UNCHANGED <<environ, name, settings, NIELSEN_HEURISTICS, PERSONAS,
                   SENTIMENT_LABELS, calls>>

\* Lines 73-179.
DefineReferenceData ==
    /\ pc = "data"
    /\ NIELSEN_HEURISTICS' = NielsenHeuristics
    /\ PERSONAS' = Personas
    /\ SENTIMENT_LABELS' = SentimentLabels
    /\ LoadStep("data", NoExc)
    /\ UNCHANGED <<environ, name, fs, settings, root, openFiles, calls>>

\* The effect of one validate_config() call on the globals and the trace.
Call(r) ==
    /\ settings' = r.globals.settings
    /\ NIELSEN_HEURISTICS' = r.globals.heuristics
    /\ PERSONAS' = r.globals.personas
    /\ SENTIMENT_LABELS' = r.globals.labels
    /\ trace' = trace \o r.events
    /\ exc' = Outcome(r.events)

\* Lines 202-203: the module runs as a script and calls validate_config().
MainValidate ==
    /\ pc = "loaded"
    /\ name = "__main__"
    /\ LET r == validate_config(Globals)
       IN  /\ Call(r)
           /\ pc' = AfterMainValidate(Outcome(r.events))
           /\ exit_code' = IF Outcome(r.events) = NoExc THEN exit_code
                           ELSE Status(Outcome(r.events))
    /\ UNCHANGED <<environ, name, fs, root, openFiles, calls>>

\* Line 204, and the end of the script.
MainPrint ==
    /\ pc = "print"
    /\ trace' = Append(trace, Event("print", <<"Configuration validated successfully">>))
    /\ pc' = "exit"
    /\ exit_code' = Status(NoExc)
    /\ UNCHANGED <<environ, name, fs, settings, root, openFiles, NIELSEN_HEURISTICS,
                   PERSONAS, SENTIMENT_LABELS, calls, exc>>

\* An importer calls validate_config() (line 182), catching what it raises.
ImporterValidate ==
    /\ pc = "loaded"
    /\ name # "__main__"
    /\ calls < MaxCalls
    /\ Call(validate_config(Globals))
    /\ calls' = calls + 1
    /\ UNCHANGED <<environ, name, fs, pc, root, openFiles, exit_code>>

\* The process is over and the module is loaded again by a new process, on
\* the file system the old one left.
Restart ==
    /\ \/ pc \in {"failed", "exit"}
       \/ pc = "loaded" /\ name # "__main__"
    /\ pc' = Program[1]
    /\ settings' = EmptyMap
    /\ root' = FreshRoot
    /\ openFiles' = {}
    /\ NIELSEN_HEURISTICS' = NoList
    /\ PERSONAS' = NoDict
    /\ SENTIMENT_LABELS' = NoDict
    /\ calls' = 0
    /\ trace' = <<>>
    /\ exc' = NoExc
    /\ exit_code' = "running"
    /\ environ' = EmptyMap
    /\ UNCHANGED <<name, fs>>

Next ==
    \/ CreateDirs
    \/ ResolveSettings
    \/ ConfigureLogging
    \/ DefineReferenceData
    \/ MainValidate
    \/ MainPrint
    \/ ImporterValidate
    \/ Restart

Spec == Init /\ [][Next]_vars

TypeOK ==
    /\ pc \in {"dirs", "settings", "logging", "data", "loaded", "print", "exit", "failed"}
    /\ DOMAIN settings \subseteq SettingNames
    /\ calls \in 0..MaxCalls
    /\ exit_code \in {"running", "exit 0", "exit 1"}
    /\ fs \subseteq Directories \cup {LOG_FILE}
    /\ TreeClosed(fs)

(***************************************************************************)
(* Vocabulary of the properties.                                           *)
(***************************************************************************)
\* A credential is missing when the environment does not set it, or sets it
\* to the empty string.
Missing(e, n) == n \notin DOMAIN e \/ e[n] = <<>>

OptionalCredentials == {"GEMINI_API_KEY", "DEEPSEEK_API_KEY"}

MissingOptional(e) == {n \in OptionalCredentials : Missing(e, n)}

\* The text names the variable n.
Mentions(text, n) == n \in Range(text)

\* The module finished loading in this process.
Loaded == DOMAIN SENTIMENT_LABELS # {}

\* This step is one call of validate_config(): made on the loaded module, it
\* ends with a return or a raise added to the trace.
IsValidateCall == pc = "loaded" /\ Len(trace') > Len(trace)

\* What that call did.
Emitted == SubSeq(trace', Len(trace) + 1, Len(trace'))

Ops(events) == [k \in DOMAIN events |-> events[k].op]

SuccessLine == Event("print", <<"Configuration validated successfully">>)

\* The integer a numeric text denotes, for the numeric texts among the inputs.
NumericTexts == {<<"4", "2">>, <<" ", "7", " ">>, <<"-", "3">>}

Denotes(s) ==
    CASE s = <<"4", "2">> -> 42
      [] s = <<" ", "7", " ">> -> 7
      [] s = <<"-", "3">> -> 0 - 3

\* The defaults as documented (table of environment variables).
DocumentedDefault(n) ==
    CASE n \in Credentials -> PyNone
      [] n = "OPENAI_MODEL" -> PyStr(<<"gpt-5-mini">>)
      [] n = "GEMINI_MODEL" -> PyStr(<<"gemini-1.5-pro">>)
      [] n = "DEEPSEEK_MODEL" -> PyStr(<<"deepseek-chat">>)
      [] n = "DEEPSEEK_BASE_URL" -> PyStr(<<"https://api.deepseek.com">>)
      [] n = "MAX_STEPS" -> PyInt(15)
      [] n = "SCREENSHOT_TIMEOUT" -> PyInt(30000)
      [] n = "DEFAULT_VIEWPORT_WIDTH" -> PyInt(1920)
      [] n = "DEFAULT_VIEWPORT_HEIGHT" -> PyInt(1080)
      [] n = "GRID_SIZE" -> PyInt(100)
      [] n = "GRID_COLOR" -> PyStr(<<"rgba(255,0,0,0.3)">>)
      [] n = "NAVIGATION_TIMEOUT" -> PyInt(30000)
      [] n = "PAGE_LOAD_WAIT" -> PyInt(2000)
      [] n = "LOG_LEVEL" -> PyStr(<<"INFO">>)

\* A numeric variable set to a text that denotes no integer.
Malformed(e, n) == n \in NumericSettings /\ n \in DOMAIN e /\ e[n] \notin NumericTexts

(***************************************************************************)
(* C1.  A validate_config() call fails if and only if OPENAI_API_KEY is    *)
(* missing, whatever the two optional credentials are; the ValueError of   *)
(* a failing call names OPENAI_API_KEY, and a call with the key present    *)
(* returns None.                                                           *)
(***************************************************************************)
C1_FailsIffMandatoryMissing ==
    [][IsValidateCall =>
         LET last == Emitted[Len(Emitted)]
         IN  /\ (last.op = "raise") <=> Missing(environ, "OPENAI_API_KEY")
             /\ last.op = "raise" =>
                  /\ Mentions(last.text, "OPENAI_API_KEY")
                  /\ exc' = Raise("ValueError", last.text)
             /\ last.op # "raise" =>
                  /\ last = Event("return", <<>>)
                  /\ exc' = NoExc]_vars

\* A call failed although both optional credentials are present, and a call
\* returned although both are missing.
C1_Witness ==
    /\ calls > 0
    /\ \/ /\ exc.type = "ValueError"
          /\ MissingOptional(environ) = {}
       \/ /\ exc = NoExc
          /\ "GEMINI_API_KEY" \notin DOMAIN environ
          /\ "DEEPSEEK_API_KEY" \in DOMAIN environ
          /\ MissingOptional(environ) = OptionalCredentials

(***************************************************************************)
(* C2.  A call that fails because OPENAI_API_KEY is missing has first      *)
(* printed, in that same call, the warning that names every missing        *)
(* optional credential: the raise is the last thing the call does.         *)
(***************************************************************************)
C2_WarnsBeforeFailing ==
    [][(IsValidateCall /\ Missing(environ, "OPENAI_API_KEY")
                       /\ MissingOptional(environ) # {}) =>
         /\ Ops(Emitted) = <<"print", "raise">>
         /\ \A n \in MissingOptional(environ) : Mentions(Emitted[1].text, n)]_vars

\* A failed call with all three credentials missing.
C2_Witness ==
    /\ calls > 0
    /\ exc.type = "ValueError"
    /\ Missing(environ, "OPENAI_API_KEY")
    /\ MissingOptional(environ) = OptionalCredentials
    /\ Ops(trace) = <<"print", "raise">>

(***************************************************************************)
(* C3.  With OPENAI_API_KEY present a call returns for every combination   *)
(* of the optional credentials; it prints one warning line naming exactly  *)
(* the missing optional credentials, and prints nothing when none is       *)
(* missing.                                                                *)
(***************************************************************************)
C3_OptionalOnlyWarns ==
    [][(IsValidateCall /\ ~Missing(environ, "OPENAI_API_KEY")) =>
         /\ exc' = NoExc
         /\ IF MissingOptional(environ) = {}
            THEN Ops(Emitted) = <<"return">>
            ELSE /\ Ops(Emitted) = <<"print", "return">>
                 /\ {n \in Credentials : Mentions(Emitted[1].text, n)}
                      = MissingOptional(environ)]_vars

\* A call returned after warning about DEEPSEEK_API_KEY alone.
C3_Witness ==
    /\ name = "__main__"
    /\ pc = "print"
    /\ ~Missing(environ, "OPENAI_API_KEY")
    /\ MissingOptional(environ) = {"DEEPSEEK_API_KEY"}
    /\ Ops(trace) = <<"print", "return">>

(***************************************************************************)
(* C4.  After a successful load every setting is bound: to the value the   *)
(* environment gives it (the integer it denotes, for a numeric setting),   *)
(* and to the documented default, in value and type, when the environment  *)
(* does not set it.                                                        *)
(***************************************************************************)
C4_EnvironmentElseDefault ==
    Loaded =>
      \A n \in SettingNames :
        /\ n \in DOMAIN settings
        /\ settings[n] =
             IF n \notin DOMAIN environ THEN DocumentedDefault(n)
             ELSE IF n \in NumericSettings /\ environ[n] \in NumericTexts
                  THEN PyInt(Denotes(environ[n]))
                  ELSE PyStr(environ[n])

\* Loaded with MAX_STEPS given as " 7 " and everything else defaulted.
C4_Witness ==
    /\ Loaded
    /\ "MAX_STEPS" \in DOMAIN environ
    /\ environ["MAX_STEPS"] = <<" ", "7", " ">>
    /\ settings["MAX_STEPS"] = PyInt(7)
    /\ settings["GRID_SIZE"] = PyInt(100)
    /\ settings["OPENAI_API_KEY"] = PyNone

(***************************************************************************)
(* C5.  A numeric setting given a text that denotes no integer makes the   *)
(* load fail with the ValueError of int(): the setting is never bound, to  *)
(* the default or to anything else, and the load never completes.          *)
(***************************************************************************)
C5_MalformedNumericFailsLoad ==
    \A n \in NumericSettings :
      Malformed(environ, n) =>
        /\ pc = "failed"
        /\ exc.type = "ValueError"
        /\ exc.msg[1] = "invalid literal for int() with base 10: "
        /\ n \notin DOMAIN settings
        /\ ~Loaded

\* The load failed on GRID_SIZE = "abc".
C5_Witness ==
    /\ pc = "failed"
    /\ Malformed(environ, "GRID_SIZE")
    /\ environ["GRID_SIZE"] = <<"a", "b", "c">>
    /\ "MAX_STEPS" \in DOMAIN settings

(***************************************************************************)
(* C6.  Validated is terminal: within a process, once a validate_config()  *)
(* call has returned, no later call raises.                                *)
(***************************************************************************)
C6_ValidatedIsTerminal ==
    \A i, j \in DOMAIN trace :
      (i < j /\ trace[i].op = "return") => trace[j].op # "raise"

\* Two calls in a row returned.
C6_Witness ==
    /\ calls = 2
    /\ \E i, j \in DOMAIN trace :
         i < j /\ trace[i].op = "return" /\ trace[j].op = "return"

(***************************************************************************)
(* C7.  Directory establishment is idempotent: from any subset of data/,   *)
(* data/screenshots/, data/reports/ and logs/ it raises nothing, leaves    *)
(* all four present and removes or adds nothing else; run again, when all  *)
(* four are present, it raises nothing and changes nothing.                *)
(***************************************************************************)
C7_DirectoriesIdempotent ==
    [][pc = "dirs" =>
         /\ exc' = NoExc
         /\ pc' # "failed"
         /\ fs' = fs \cup Directories
         /\ Directories \subseteq fs => fs' = fs]_vars

\* A second process went through directory establishment on the tree the
\* first one left (the log file of the first is there, and is not open).
C7_Witness ==
    /\ pc = "settings"
    /\ LOG_FILE \in fs
    /\ openFiles = {}
    /\ Directories \subseteq fs

(***************************************************************************)
(* C8.  Run as a script, the module prints the success line only after     *)
(* validate_config() has returned; when the call raises, the script ends   *)
(* with that exception and exit status 1 and the success line is never     *)
(* printed; the status is 0 exactly when the line was printed.             *)
(***************************************************************************)
C8_SuccessOnlyAfterValidate ==
    name = "__main__" =>
      /\ \A k \in DOMAIN trace :
           trace[k] = SuccessLine =>
             /\ k > 1 /\ trace[k - 1] = Event("return", <<>>)
             /\ \A j \in DOMAIN trace : trace[j].op # "raise"
      /\ (\E k \in DOMAIN trace : trace[k].op = "raise") =>
             /\ pc = "failed"
             /\ exit_code = "exit 1"
             /\ exc.type # "None"
             /\ trace[Len(trace)].op = "raise"
      /\ exit_code = "exit 0" <=> (trace # <<>> /\ trace[Len(trace)] = SuccessLine)

\* The script ended with the ValueError of validate_config(), after load.
C8_Witness ==
    /\ name = "__main__"
    /\ Loaded
    /\ pc = "failed"
    /\ exit_code = "exit 1"
    /\ exc.type = "ValueError"

(***************************************************************************)
(* C9.  A validate_config() call, returning or raising, leaves every       *)
(* setting, the ten heuristics in their order, the personas and the        *)
(* sentiment labels as the load defined them.                              *)
(***************************************************************************)
C9_ValidateMutatesNothing ==
    [][IsValidateCall =>
         /\ settings' = settings
         /\ NIELSEN_HEURISTICS' = NIELSEN_HEURISTICS
         /\ PERSONAS' = PERSONAS
         /\ SENTIMENT_LABELS' = SENTIMENT_LABELS
         /\ Len(NIELSEN_HEURISTICS') = 10
         /\ NIELSEN_HEURISTICS'[1] = "Visibility of system status"
         /\ NIELSEN_HEURISTICS'[10] = "Help and documentation"
         /\ DOMAIN PERSONAS' = {"student", "applicant", "teacher"}
         /\ DOMAIN SENTIMENT_LABELS' = {"POSITIVE", "NEUTRAL", "NEGATIVE"}]_vars

\* Two calls were made, one of them at least raising.
C9_Witness ==
    /\ calls = 2
    /\ exc.type = "ValueError"
    /\ Len(NIELSEN_HEURISTICS) = 10
    /\ DOMAIN settings = SettingNames

(***************************************************************************)
(* C10.  Load runs directory creation, then settings resolution, then      *)
(* logging configuration: when the load fails on a malformed numeric       *)
(* setting the directories exist already, while logging is not configured  *)
(* and the log file is not open.                                           *)
(***************************************************************************)
C10_LoadOrder ==
    /\ (\E n \in NumericSettings : Malformed(environ, n)) =>
         /\ pc = "failed"
         /\ Directories \subseteq fs
         /\ root = FreshRoot
         /\ openFiles = {}
         /\ ~Loaded
    /\ DOMAIN settings # {} => Directories \subseteq fs
    /\ (root # FreshRoot \/ openFiles # {}) => DOMAIN settings = SettingNames
    /\ Loaded => (root.handlers # {} /\ LOG_FILE \in openFiles)

\* The load failed on a malformed PAGE_LOAD_WAIT, in a tree never logged to.
C10_Witness ==
    /\ pc = "failed"
    /\ Malformed(environ, "PAGE_LOAD_WAIT")
    /\ Directories \subseteq fs
    /\ LOG_FILE \notin fs

====
